---- MODULE Spec2Model ----
(***************************************************************************)
(* compare_dirs.py / textconv.py: comparison of two directory trees by     *)
(* `git diff --no-index -M --name-status`, classification of every path,   *)
(* one `git diff` per changed record for its hunk, grouping and output;    *)
(* and the textconv dispatcher that git runs once per binary document.     *)
(*                                                                         *)
(* A path is the sequence of its components: "sub/c.txt" is                *)
(* <<"sub", "c.txt">>.  A token of a status line is [abs, comps]: whether  *)
(* the string starts with "/" and its components.                          *)
(***************************************************************************)
EXTENDS Integers, Sequences, FiniteSets, TLC

\* At most this many files in the two trees together.
MaxFiles == 3

STATUS_ORDER ==
    <<"Added", "Removed", "Renamed", "Modified", "RenamedAndModified", "Unchanged">>

\* The extensions of _MAPPING / mapping.
Registered == {".docx", ".doc", ".xlsx", ".xls", ".pptx", ".ppt", ".pdf"}

\* os.path.abspath(args.dir1), os.path.abspath(args.dir2), os.getcwd(), os.devnull
dir1 == <<"r", "A">>
dir2 == <<"r", "B">>
cwd == <<"r">>
devnull == <<"dev", "null">>

(***************************************************************************)
(* The file names of the trees.  "e9.txt" stands for a name with a byte    *)
(* above 0x7f (the e-acute of "\303\251.txt"), which git prints C-quoted.  *)
(***************************************************************************)
PathOrder == << <<"a.txt">>, <<"b.txt">>, <<"sub", "c.txt">>, <<"e9.txt">> >>
RelNames == {PathOrder[k] : k \in 1..Len(PathOrder)}

\* The similarity scores git reports with -M (its threshold is 50).
Scores == {50, 99, 100}

Range(s) == {s[k] : k \in 1..Len(s)}

----------------------------------------------------------------------------
(* Paths *)

\* len(os.path.commonprefix([a, b])) on component lists
RECURSIVE CommonLen(_, _)
CommonLen(a, b) ==
    IF a = <<>> \/ b = <<>> \/ Head(a) # Head(b) THEN 0
    ELSE 1 + CommonLen(Tail(a), Tail(b))

\* os.path.abspath of a token: a relative one is joined to the working directory
abspath(tok) == IF tok.abs THEN tok.comps ELSE cwd \o tok.comps

\* os.path.relpath(tok, start): ".." for each component of start that is not
\* shared, then what is left of the path
relpath(tok, start) ==
    LET p == abspath(tok)
        n == CommonLen(p, start)
    IN  [k \in 1..(Len(start) - n) |-> ".."] \o SubSeq(p, n + 1, Len(p))

\* os.path.join(root, rel) for a relative rel
join(root, rel) == root \o rel

\* sorted(S) for a set of relative paths (string order of the joined path)
sorted(S) == SelectSeq(PathOrder, LAMBDA p : p \in S)

----------------------------------------------------------------------------
(* git diff --no-index -M --name-status abs1 abs2, as the program reads it *)

\* The status token: a letter, and for a rename the score as three digits.
Digit(d) == CASE d = 0 -> "0" [] d = 1 -> "1" [] d = 2 -> "2" [] d = 3 -> "3"
              [] d = 4 -> "4" [] d = 5 -> "5" [] d = 6 -> "6" [] d = 7 -> "7"
              [] d = 8 -> "8" [] d = 9 -> "9"
RenameToken(score) ==
    <<"R", Digit(score \div 100), Digit((score \div 10) % 10), Digit(score % 10)>>

\* git prints a path with a byte above 0x7f between double quotes, the byte
\* as an octal escape (core.quotePath): the token no longer starts with "/".
NeedsQuote(rel) == "e9.txt" \in Range(rel)
CQuote(c) == IF c = "e9.txt" THEN "\\303\\251.txt\"" ELSE c
PathToken(root, rel) ==
    IF NeedsQuote(rel)
    THEN [abs |-> FALSE,
          comps |-> <<"\"">> \o root \o [k \in 1..Len(rel) |-> CQuote(rel[k])]]
    ELSE [abs |-> TRUE, comps |-> root \o rel]

\* The line git prints at path p (renames are printed at their new path).
LineAt(p, t1, t2, d) ==
    IF \E r \in d.renames : r.new = p
    THEN LET r == CHOOSE r \in d.renames : r.new = p
         IN  << <<RenameToken(r.score), PathToken(dir1, r.old), PathToken(dir2, p)>> >>
    ELSE IF \E r \in d.renames : r.old = p THEN <<>>
    ELSE IF p \in t1 \ t2 THEN << << <<"D">>, PathToken(dir1, p)>> >>
    ELSE IF p \in t2 \ t1 THEN << << <<"A">>, PathToken(dir2, p)>> >>
    ELSE IF p \in d.modified THEN << << <<"M">>, PathToken(dir1, p)>> >>
    ELSE IF p \in d.typechanged THEN << << <<"T">>, PathToken(dir1, p)>> >>
    ELSE <<>>

RECURSIVE ReportFrom(_, _, _, _)
ReportFrom(k, t1, t2, d) ==
    IF k > Len(PathOrder) THEN <<>>
    ELSE LineAt(PathOrder[k], t1, t2, d) \o ReportFrom(k + 1, t1, t2, d)

\* result.stdout of the name-status call, after strip().splitlines() and
\* split('\t') of each line
NameStatus(t1, t2, d) == ReportFrom(1, t1, t2, d)

\* result.stdout of a single-pair call: the hunk of the pair
Hunk(p1, p2) == <<p1, p2>>

\* The differences two trees can have: files of both trees modified or of
\* another type (a file against a symlink), and the renames git pairs up
\* among the files of one tree only.
Matching(R) ==
    \A r, s \in R : (r.old = s.old \/ r.new = s.new) => r = s
Deltas(t1, t2) ==
    {[modified |-> m, typechanged |-> t, renames |-> R] :
        m \in SUBSET (t1 \cap t2), t \in SUBSET (t1 \cap t2),
        R \in SUBSET [old : t1 \ t2, new : t2 \ t1, score : Scores]}
NoDelta == [modified |-> {}, typechanged |-> {}, renames |-> {}]

----------------------------------------------------------------------------
(* State *)

VARIABLES
    script,         \* which file runs: "compare_dirs" or "textconv"
    argv,           \* sys.argv[1:]
    file,           \* the file argument of a dispatcher run, as the filesystem has it
    tree1, tree2,   \* the relative paths of the files under dir1 and under dir2
    delta,          \* how the two trees differ
    pc,             \* the position of the run
    tmpfiles,       \* the temporary attribute files that exist
    attr_file,      \* the name of the last attribute file created
    calls,          \* the git command lines run so far
    git_failed,     \* some git call ended with a failure status
    result,         \* result.stdout of the last git call
    diff_output,    \* the parsed lines of the status report
    idx,            \* the line of diff_output the loop is at
    changes,        \* the records
    changed_paths,  \* the paths of the records read from the report
    h,              \* the record the hunk loop is at
    grouped,        \* status -> records
    out             \* what was written to sys.stdout

vars == <<script, argv, file, tree1, tree2, delta, pc, tmpfiles, attr_file, calls,
          git_failed, result, diff_output, idx, changes, changed_paths, h, grouped, out>>

env == <<script, argv, file, tree1, tree2, delta>>

NoFile == [ext |-> "", kind |-> "missing", readable |-> FALSE, parses |-> FALSE]

\* str.lower() of an extension
Exts == {".docx", ".DOCX", ".doc", ".xlsx", ".xls", ".XLS", ".pptx", ".ppt",
         ".pdf", ".Pdf", ".txt", ""}
lower(e) == CASE e = ".DOCX" -> ".docx" [] e = ".XLS" -> ".xls" [] e = ".Pdf" -> ".pdf"
              [] OTHER -> e

\* The files a dispatcher can be given: a regular file (readable or not, its
\* extractor succeeding or not), a directory, the null device, nothing.
Files ==
    {f \in [ext : Exts, kind : {"file", "dir", "chardev", "missing"},
            readable : BOOLEAN, parses : BOOLEAN] :
        /\ f.parses => (f.kind = "file" /\ f.readable /\ lower(f.ext) \in Registered)
        /\ f.kind = "missing" => ~f.readable
        /\ f.kind = "chardev" => (f.ext = "" /\ f.readable)}

InitRun ==
    /\ pc = "entry"
    /\ tmpfiles = {}
    /\ attr_file = 0
    /\ calls = <<>>
    /\ git_failed = FALSE
    /\ result = <<>>
    /\ diff_output = <<>>
    /\ idx = 1
    /\ changes = <<>>
    /\ changed_paths = {}
    /\ h = 1
    /\ grouped = <<>>
    /\ out = <<>>

\* python3 compare_dirs.py dir1 dir2 [--json] over two trees
InitCompare ==
    /\ script = "compare_dirs"
    /\ argv \in {<<"DIR1", "DIR2">>, <<"DIR1", "DIR2", "--json">>}
    /\ file = NoFile
    /\ tree1 \in SUBSET RelNames
    /\ tree2 \in SUBSET RelNames
    /\ Cardinality(tree1 \cup tree2) <= MaxFiles
    /\ delta \in Deltas(tree1, tree2)
    /\ delta.modified \cap delta.typechanged = {}
    /\ Matching(delta.renames)

\* a dispatcher run on one file (git's textconv call), or a call with too few arguments
InitDispatch ==
    /\ script \in {"compare_dirs", "textconv"}
    /\ \/ argv = <<"FILE">> /\ file \in Files
       \/ argv = <<>> /\ file = NoFile
       \/ argv = <<"DIR1">> /\ file = NoFile /\ script = "compare_dirs"
    /\ tree1 = {}
    /\ tree2 = {}
    /\ delta = NoDelta

Init == InitRun /\ (InitCompare \/ InitDispatch)

----------------------------------------------------------------------------
(* Entry: which main runs *)

\* os.path.isfile(sys.argv[1])
isfile(a) == a = "FILE" /\ file.kind = "file"

\* the positional arguments argparse is left with
Positionals == SelectSeq(argv, LAMBDA a : a # "--json")
args_json == "--json" \in Range(argv)

\* compare_dirs.py __main__: one argument that is a regular file goes to the
\* dispatcher, anything else to main(), whose parser wants dir1 and dir2.
Entry ==
    /\ pc = "entry"
    /\ script = "compare_dirs"
    /\ pc' = IF Len(argv) = 1 /\ isfile(argv[1]) THEN "textconv"
             ELSE IF Len(Positionals) # 2 THEN "usage_error"
             ELSE "diff_create"
    /\ UNCHANGED <<env, tmpfiles, attr_file, calls, git_failed, result, diff_output,
                   idx, changes, changed_paths, h, grouped, out>>

----------------------------------------------------------------------------
(* The dispatcher *)

\* open(path, 'r', errors='ignore') succeeds
CanOpen(f) == f.kind \in {"file", "chardev"} /\ f.readable

\* What the dispatcher does with a file: [raised, written].  A registered
\* extractor's text is written, its exception swallowed; any other file is
\* opened and read outside any try.
Dispatch(f) ==
    IF lower(f.ext) \in Registered
    THEN [raised |-> FALSE, written |-> IF f.parses THEN <<"text">> ELSE <<>>]
    ELSE IF CanOpen(f) THEN [raised |-> FALSE, written |-> <<"raw">>]
    ELSE [raised |-> TRUE, written |-> <<>>]

\* compare_dirs.textconv_main(sys.argv[1])
textconv_main ==
    /\ pc = "textconv"
    /\ LET d == Dispatch(file)
       IN  /\ pc' = IF d.raised THEN "raised" ELSE "tc_done"
           /\ out' = d.written
    /\ UNCHANGED <<env, tmpfiles, attr_file, calls, git_failed, result, diff_output,
                   idx, changes, changed_paths, h, grouped>>

\* textconv.py __main__: path = sys.argv[1], then the same dispatch
textconv_script ==
    /\ pc = "entry"
    /\ script = "textconv"
    /\ IF Len(argv) = 0
       THEN pc' = "raised" /\ out' = out
       ELSE LET d == Dispatch(file)
            IN  /\ pc' = IF d.raised THEN "raised" ELSE "tc_done"
                /\ out' = d.written
    /\ UNCHANGED <<env, tmpfiles, attr_file, calls, git_failed, result, diff_output,
                   idx, changes, changed_paths, h, grouped>>

----------------------------------------------------------------------------
(* run_git_diff *)

\* tempfile.NamedTemporaryFile('w', delete=False): a name no file has
CreateAttrFile ==
    /\ attr_file' = attr_file + 1
    /\ tmpfiles' = tmpfiles \cup {attr_file + 1}

\* os.unlink(attr_file)
Unlink == tmpfiles' = tmpfiles \ {attr_file}

run_git_diff_create ==
    /\ pc = "diff_create"
    /\ CreateAttrFile
    /\ pc' = "diff_run"
    /\ UNCHANGED <<env, calls, git_failed, result, diff_output, idx, changes,
                   changed_paths, h, grouped, out>>

\* subprocess.run(cmd, ...): git writes the report and exits 0 or 1; or git
\* exits with a failure status and an empty stdout, which nothing looks at;
\* or the launch raises (no git on PATH) and the exception leaves main().
run_git_diff_run ==
    /\ pc = "diff_run"
    /\ calls' = Append(calls, <<"name-status", dir1, dir2>>)
    /\ \/ /\ result' = NameStatus(tree1, tree2, delta)
          /\ pc' = "diff_unlink"
          /\ UNCHANGED git_failed
       \/ /\ result' = <<>>
          /\ git_failed' = TRUE
          /\ pc' = "diff_unlink"
       \/ /\ pc' = "raised"
          /\ UNCHANGED <<result, git_failed>>
    /\ UNCHANGED <<env, tmpfiles, attr_file, diff_output, idx, changes,
                   changed_paths, h, grouped, out>>

run_git_diff_unlink ==
    /\ pc = "diff_unlink"
    /\ Unlink
    /\ diff_output' = result
    /\ idx' = 1
    /\ pc' = IF Len(result) = 0 THEN "collect" ELSE "parse"
    /\ UNCHANGED <<env, attr_file, calls, git_failed, result, changes,
                   changed_paths, h, grouped, out>>

----------------------------------------------------------------------------
(* The status lines *)

startswithR(status) == Len(status) >= 1 /\ status[1] = "R"

Digits == {"0", "1", "2", "3", "4", "5", "6", "7", "8", "9"}
DigitVal(c) == CHOOSE d \in 0..9 : Digit(d) = c

\* int(s) of a string of digits
RECURSIVE int(_)
int(s) == IF s = <<>> THEN 0 ELSE 10 * int(SubSeq(s, 1, Len(s) - 1)) + DigitVal(s[Len(s)])
IsInt(s) == s # <<>> /\ Range(s) \subseteq Digits

\* `if not line: continue`
EmptyLine(parts) == parts = << <<>> >>

\* int() raises ValueError, parts[1] or parts[2] raises IndexError
LineRaises(parts) ==
    /\ ~EmptyLine(parts)
    /\ \/ startswithR(parts[1]) /\ (~IsInt(Tail(parts[1])) \/ Len(parts) < 3)
       \/ parts[1] \in {<<"M">>, <<"A">>, <<"D">>} /\ Len(parts) < 2

\* RenameStatus with the boundary at git's threshold instead of at 100
RenameStatus_AboveThreshold(score) ==
    IF score > 50 THEN "Renamed" ELSE "RenamedAndModified"

\* 'Renamed' for a score of 100, 'RenamedAndModified' for any other
RenameStatus(score) == IF score = 100 THEN "Renamed" ELSE "RenamedAndModified"

\* LineRecords with a rename line falling through to the 'A' branch as well
LineRecords_RenameAlsoAdded(parts) ==
    IF EmptyLine(parts) THEN <<>>
    ELSE IF startswithR(parts[1])
    THEN << [status |-> RenameStatus(int(Tail(parts[1]))),
             old |-> relpath(parts[2], dir1),
             new |-> relpath(parts[3], dir2)],
            [status |-> "Added", path |-> relpath(parts[3], dir2)] >>
    ELSE IF parts[1] = <<"M">>
    THEN << [status |-> "Modified", path |-> relpath(parts[2], dir1)] >>
    ELSE IF parts[1] = <<"A">>
    THEN << [status |-> "Added", path |-> relpath(parts[2], dir2)] >>
    ELSE IF parts[1] = <<"D">>
    THEN << [status |-> "Removed", path |-> relpath(parts[2], dir1)] >>
    ELSE <<>>

\* The records a line appends to changes: one for R*, M, A and D, and none for
\* a line of any other status, which no branch matches.
LineRecords(parts) ==
    IF EmptyLine(parts) THEN <<>>
    ELSE IF startswithR(parts[1])
    THEN << [status |-> RenameStatus(int(Tail(parts[1]))),
             old |-> relpath(parts[2], dir1),
             new |-> relpath(parts[3], dir2)] >>
    ELSE IF parts[1] = <<"M">>
    THEN << [status |-> "Modified", path |-> relpath(parts[2], dir1)] >>
    ELSE IF parts[1] = <<"A">>
    THEN << [status |-> "Added", path |-> relpath(parts[2], dir2)] >>
    ELSE IF parts[1] = <<"D">>
    THEN << [status |-> "Removed", path |-> relpath(parts[2], dir1)] >>
    ELSE <<>>

\* The paths a record covers
Covers(c) == IF "path" \in DOMAIN c THEN {c.path} ELSE {c.old, c.new}

\* The paths a line adds to changed_paths
LineTouched(parts) ==
    UNION {Covers(LineRecords(parts)[k]) : k \in 1..Len(LineRecords(parts))}

\* One pass of `for line in diff_output.strip().splitlines()`
ParseLine ==
    /\ pc = "parse"
    /\ idx <= Len(diff_output)
    /\ LET parts == diff_output[idx]
       IN  IF LineRaises(parts)
           THEN /\ pc' = "raised"
                /\ UNCHANGED <<changes, changed_paths, idx>>
           ELSE /\ changes' = changes \o LineRecords(parts)
                /\ changed_paths' = changed_paths \cup LineTouched(parts)
                /\ idx' = idx + 1
                /\ pc' = IF idx = Len(diff_output) THEN "collect" ELSE "parse"
    /\ UNCHANGED <<env, tmpfiles, attr_file, calls, git_failed, result, diff_output,
                   h, grouped, out>>

----------------------------------------------------------------------------
(* The unchanged files *)

\* collect_files(root): os.walk, each file relative to the root
collect_files(root, tree) ==
    {relpath([abs |-> TRUE, comps |-> join(root, r)], root) : r \in tree}

\* UnchangedPaths without the subtraction of changed_paths
UnchangedPaths_NoSubtract(all1, all2, touched) == all1 \cap all2

\* (all_files_dir1 & all_files_dir2) - changed_paths
UnchangedPaths(all1, all2, touched) == (all1 \cap all2) \ touched

CollectUnchanged ==
    /\ pc = "collect"
    /\ LET unchanged == sorted(UnchangedPaths(collect_files(dir1, tree1),
                                              collect_files(dir2, tree2),
                                              changed_paths))
           all == changes \o [k \in 1..Len(unchanged) |->
                                [status |-> "Unchanged", path |-> unchanged[k]]]
       IN  /\ changes' = all
           /\ pc' = IF Len(all) = 0 THEN "group" ELSE "hunks"
    /\ h' = 1
    /\ UNCHANGED <<env, tmpfiles, attr_file, calls, git_failed, result, diff_output,
                   idx, changed_paths, grouped, out>>

----------------------------------------------------------------------------
(* get_diff_hunk, once per record that is not Unchanged *)

\* change.get(key, change.get('path'))
GetOr(c, key) == IF key \in DOMAIN c THEN c[key] ELSE c.path

\* The two paths main() hands to get_diff_hunk for a record
HunkArgs(c) ==
    IF c.status \in {"Modified", "RenamedAndModified"}
    THEN <<join(dir1, GetOr(c, "old")), join(dir2, GetOr(c, "new"))>>
    ELSE IF c.status = "Added" THEN <<devnull, join(dir2, c.path)>>
    ELSE IF c.status = "Removed" THEN <<join(dir1, c.path), devnull>>
    ELSE <<join(dir1, c.old), join(dir2, c.new)>>

\* FetchesHunk without the 'Renamed' branch
FetchesHunk_NotRenamed(st) ==
    st \in {"Modified", "RenamedAndModified", "Added", "Removed"}

\* The statuses the loop fetches a hunk for
FetchesHunk(st) ==
    st \in {"Modified", "RenamedAndModified", "Added", "Removed", "Renamed"}

\* a record no branch of the loop matches
HunkSkip ==
    /\ pc = "hunks"
    /\ ~FetchesHunk(changes[h].status)
    /\ h' = h + 1
    /\ pc' = IF h = Len(changes) THEN "group" ELSE "hunks"
    /\ UNCHANGED <<env, tmpfiles, attr_file, calls, git_failed, result, diff_output,
                   idx, changes, changed_paths, grouped, out>>

get_diff_hunk_create ==
    /\ pc = "hunks"
    /\ FetchesHunk(changes[h].status)
    /\ CreateAttrFile
    /\ pc' = "hunk_run"
    /\ UNCHANGED <<env, calls, git_failed, result, diff_output, idx, changes,
                   changed_paths, h, grouped, out>>

\* subprocess.run(cmd, ...), with the outcomes of run_git_diff's
get_diff_hunk_run ==
    /\ pc = "hunk_run"
    /\ LET a == HunkArgs(changes[h])
       IN  /\ calls' = Append(calls, <<"hunk", a[1], a[2]>>)
           /\ \/ /\ result' = Hunk(a[1], a[2])
                 /\ pc' = "hunk_unlink"
                 /\ UNCHANGED git_failed
              \/ /\ result' = <<>>
                 /\ git_failed' = TRUE
                 /\ pc' = "hunk_unlink"
              \/ /\ pc' = "raised"
                 /\ UNCHANGED <<result, git_failed>>
    /\ UNCHANGED <<env, tmpfiles, attr_file, diff_output, idx, changes,
                   changed_paths, h, grouped, out>>

\* os.unlink(attr_file); return result.stdout; change['diff'] = ...
get_diff_hunk_unlink ==
    /\ pc = "hunk_unlink"
    /\ Unlink
    /\ changes' = [changes EXCEPT ![h] = @ @@ ("diff" :> result)]
    /\ h' = h + 1
    /\ pc' = IF h = Len(changes) THEN "group" ELSE "hunks"
    /\ UNCHANGED <<env, attr_file, calls, git_failed, result, diff_output,
                   idx, changed_paths, grouped, out>>

----------------------------------------------------------------------------
(* Grouping and output *)

\* AppendTo inserting at the front of the list
AppendTo_Prepend(g, c) ==
    IF c.status \in DOMAIN g
    THEN [g EXCEPT ![c.status] = <<c>> \o @]
    ELSE g @@ (c.status :> <<c>>)

\* grouped[c['status']].append(c) on a defaultdict(list)
AppendTo(g, c) ==
    IF c.status \in DOMAIN g
    THEN [g EXCEPT ![c.status] = Append(@, c)]
    ELSE g @@ (c.status :> <<c>>)

RECURSIVE GroupAll(_, _)
GroupAll(g, cs) == IF cs = <<>> THEN g ELSE GroupAll(AppendTo(g, Head(cs)), Tail(cs))

\* grouped.get(st, [])
GroupOf(g, st) == IF st \in DOMAIN g THEN g[st] ELSE <<>>

Group ==
    /\ pc = "group"
    /\ grouped' = GroupAll(<<>>, changes)
    /\ pc' = "output"
    /\ UNCHANGED <<env, tmpfiles, attr_file, calls, git_failed, result, diff_output,
                   idx, changes, changed_paths, h, out>>

\* {st: grouped.get(st, []) for st in STATUS_ORDER}: the keys in that order
JsonOut(g) == [k \in 1..Len(STATUS_ORDER) |-> <<STATUS_ORDER[k], GroupOf(g, STATUS_ORDER[k])>>]

\* what the text report prints for one record: its line, then its diff if it has one
ItemText(st, item) ==
    << IF st \in {"Renamed", "RenamedAndModified"}
       THEN <<"item", item.old, "->", item.new>>
       ELSE <<"item", item.path>> >>
    \o (IF "diff" \in DOMAIN item THEN << <<"diff", item.diff>> >> ELSE <<>>)

RECURSIVE ItemsText(_, _)
ItemsText(st, items) ==
    IF items = <<>> THEN <<>> ELSE ItemText(st, Head(items)) \o ItemsText(st, Tail(items))

\* the text report: a header per status that has records, then its records
RECURSIVE TextOut(_, _)
TextOut(g, k) ==
    IF k > Len(STATUS_ORDER) THEN <<>>
    ELSE LET st == STATUS_ORDER[k]
             items == GroupOf(g, st)
         IN  (IF items = <<>> THEN <<>>
              ELSE << <<"##", st>> >> \o ItemsText(st, items))
             \o TextOut(g, k + 1)

Output ==
    /\ pc = "output"
    /\ out' = IF args_json THEN JsonOut(grouped) ELSE TextOut(grouped, 1)
    /\ pc' = "done"
    /\ UNCHANGED <<env, tmpfiles, attr_file, calls, git_failed, result, diff_output,
                   idx, changes, changed_paths, h, grouped>>

----------------------------------------------------------------------------

Next ==
    \/ Entry
    \/ textconv_main
    \/ textconv_script
    \/ run_git_diff_create
    \/ run_git_diff_run
    \/ run_git_diff_unlink
    \/ ParseLine
    \/ CollectUnchanged
    \/ HunkSkip
    \/ get_diff_hunk_create
    \/ get_diff_hunk_run
    \/ get_diff_hunk_unlink
    \/ Group
    \/ Output

Spec == Init /\ [][Next]_vars

\* the run is over: output written, an uncaught exception, or argparse's exit
Terminal == pc \in {"done", "tc_done", "raised", "usage_error"}

----------------------------------------------------------------------------
(* The claims *)

\* the changes list is built: the Unchanged records are appended
Built == pc \in {"hunks", "hunk_run", "hunk_unlink", "group", "output", "done"}

\* the hunk loop is over
Fetched == pc \in {"group", "output", "done"}

Records == {changes[k] : k \in 1..Len(changes)}
IsRename(c) == c.status \in {"Renamed", "RenamedAndModified"}
CoverCount(p) == Cardinality({k \in 1..Len(changes) : p \in Covers(changes[k])})

\* a path of a tree as the program names it once it has read it in a status line
Shown(root, rel) == relpath(PathToken(root, rel), root)

\* C1: once main() has built the changes list from the report git produced for
\* the two trees, every relative path of tree A or tree B is covered by exactly
\* one record (as path, or as old/new of a rename): none missing, none twice.
C1_EveryPathOnce ==
    (Built /\ ~git_failed) => \A p \in tree1 \cup tree2 : CoverCount(p) = 1

\* C2: the status of the record of a rename line is decided by the score alone:
\* Renamed for a score of 100, RenamedAndModified for every score below.
C2_ScoreDecides ==
    \A c \in Records : IsRename(c) =>
        \E r \in delta.renames :
            /\ c.old = Shown(dir1, r.old)
            /\ c.new = Shown(dir2, r.new)
            /\ (r.score = 100 => c.status = "Renamed")
            /\ (r.score < 100 => c.status = "RenamedAndModified")

\* a rename of score 99 was read, and one of score 100 would have been Renamed
C2_Witness ==
    /\ pc = "done"
    /\ \E c \in Records, r \in delta.renames :
        c.status = "RenamedAndModified" /\ r.score = 99 /\ c.new = Shown(dir2, r.new)

UnchangedRecorded == {c.path : c \in {q \in Records : q.status = "Unchanged"}}
TouchedByOthers == UNION {Covers(c) : c \in {q \in Records : q.status # "Unchanged"}}

\* C4: the paths with an Unchanged record are exactly the files of both trees
\* that no other record touches, each has one Unchanged record, and a path of
\* one tree only is never Unchanged.
C4_UnchangedExact ==
    Built =>
        /\ UnchangedRecorded = (tree1 \cap tree2) \ TouchedByOthers
        /\ \A p \in UnchangedRecorded :
              Cardinality({k \in 1..Len(changes) :
                  changes[k].status = "Unchanged" /\ changes[k].path = p}) = 1
        /\ \A p \in (tree1 \ tree2) \cup (tree2 \ tree1) : p \notin UnchangedRecorded

\* a finished run with a Modified file, an Unchanged file and a file of one tree only
C4_Witness ==
    /\ pc = "done"
    /\ \E c, q \in Records : c.status = "Modified" /\ q.status = "Unchanged"
    /\ tree1 # tree2

\* C5: after the hunk loop a record has a diff field iff it is not Unchanged,
\* and the call for an Added (Removed) record had the null device as its first
\* (second) path.
C5_DiffIffChanged ==
    Fetched =>
        \A k \in 1..Len(changes) :
            LET c == changes[k]
            IN  /\ ("diff" \in DOMAIN c) <=> (c.status # "Unchanged")
                /\ c.status = "Added" => calls[k + 1] = <<"hunk", devnull, join(dir2, c.path)>>
                /\ c.status = "Removed" => calls[k + 1] = <<"hunk", join(dir1, c.path), devnull>>

\* a finished run with an Added, a Removed and an Unchanged record
C5_Witness ==
    /\ pc = "done"
    /\ \E a, b, c \in Records :
        a.status = "Added" /\ b.status = "Removed" /\ c.status = "Unchanged"

\* C6: no status line is dropped: when the loop over the report ends without
\* an exception, every line has produced exactly one record.
C6_NoLineDropped ==
    pc = "collect" => Len(changes) = Len(diff_output)

\* C7: a run in which a git call failed does not complete normally.
C7_FailureSurfaced ==
    pc = "done" => ~git_failed

\* C8: the dispatcher, given an existing file or the null device, does not raise.
C8_DispatcherNeverRaises ==
    (argv = <<"FILE">> /\ file.kind \in {"file", "chardev"}) => pc # "raised"

\* C9: the JSON object has the six status keys in the fixed order, each with
\* the records of that status in the order of the changes list.
C9_JsonGrouped ==
    (pc = "done" /\ args_json) =>
        /\ Len(out) = 6
        /\ \A k \in 1..6 :
            /\ out[k][1] = STATUS_ORDER[k]
            /\ out[k][2] = SelectSeq(changes, LAMBDA c : c.status = STATUS_ORDER[k])

\* JSON written with two records in one group, and an empty group
C9_Witness ==
    /\ pc = "done"
    /\ args_json
    /\ \E k, j \in 1..6 : Len(out[k][2]) >= 2 /\ Len(out[j][2]) = 0

\* C10: at most one temporary attribute file exists at any time, and none
\* when the run is over, however it ended.
C10_TempFilesRemoved ==
    /\ Cardinality(tmpfiles) <= 1
    /\ Terminal => tmpfiles = {}

====
